---- MODULE Spec2Model ----
(***************************************************************************)
(* Model of the nmac declarative-macro pattern engine:                     *)
(*   - PatternParser   (include/nmac/nmac.hpp)                             *)
(*   - PatternMatcher  (include/nmac/nmac.hpp)                             *)
(*   - MacroRule, MacroExpander (include/nmac/nmac.hpp)                    *)
(*   - macro::Expander (include/nmac/macro_expander.hpp)                   *)
(*                                                                         *)
(* Strings are sequences of one-character strings, so that the parser can  *)
(* index them.  Positions are 0-based as in the code; element i of a C++   *)
(* vector or string is element i+1 of the TLA+ sequence.                   *)
(***************************************************************************)
EXTENDS Integers, Sequences, FiniteSets, TLC

VARIABLES
    parser,     \* a PatternParser object and what its parse() returned
    matcher,    \* a PatternMatcher object (its members)
    call,       \* the last PatternMatcher::match() call on `matcher`
    rules,      \* the Rules... of an expander, in declaration order
    tokens,     \* the input handed to expand / try_expand
    outcome,    \* what the last expand / try_expand call did
    parse_calls \* per rule, the MacroRule::parse_pattern() calls made so far

vars == <<parser, matcher, call, rules, tokens, outcome, parse_calls>>

(***************************************************************************)
(* Bounds of the model.                                                    *)
(***************************************************************************)
MaxTokens == 3      \* longest token sequence
MaxCalls == 2       \* match() calls made on one PatternMatcher object

(***************************************************************************)
(* PatternNode                                                             *)
(***************************************************************************)
PatternNode(t, c, pos) ==
    [type |-> t, content |-> c, children |-> <<>>, source_position |-> pos]

WithChildren(node, ch) == [node EXCEPT !.children = ch]

\* The nodes a caller builds by hand, as the tests do (source_position 0).
LitNode(c) == PatternNode("LITERAL", c, 0)
OpNode(c) == PatternNode("OPERATOR", c, 0)
VarNode(c) == PatternNode("VARIABLE", c, 0)
SeqNode(ch) == WithChildren(PatternNode("SEQUENCE", <<>>, 0), ch)
OptNode(ch) == WithChildren(PatternNode("OPTIONAL", <<>>, 0), ch)
RepNode(op, child) == WithChildren(PatternNode("REPETITION", <<op>>, 0), <<child>>)

RECURSIVE Size(_)
RECURSIVE SizeAll(_)
\* Number of nodes of a pattern AST.
Size(node) == 1 + SizeAll(node.children)
SizeAll(ch) == IF ch = <<>> THEN 0 ELSE Size(Head(ch)) + SizeAll(Tail(ch))

(***************************************************************************)
(* PatternMatcher                                                          *)
(*                                                                         *)
(* A match state `s` holds the members the private methods write           *)
(* (captures, error_message, error_position), the size_t& input_pos they   *)
(* all share, the bool the method returned (ok), and the number of         *)
(* match_node calls made so far (visits).  The walk is cut after MaxVisits *)
(* calls; `exhausted` says the cut happened, i.e. the call made more than  *)
(* MaxVisits node visits and had not returned.                             *)
(***************************************************************************)
Msg(text, expected, got) == [text |-> text, expected |-> expected, got |-> got]
NoMessage == Msg("", <<>>, <<>>)

\* An upper bound on the size of the patterns of the model.
MaxPatternSize == 9
\* More visits than any P x (N+1) of the matcher specification.
MaxVisits == MaxPatternSize * (MaxTokens + 2)

set_error(s, message, pos) ==
    [s EXCEPT !.error_message = message, !.error_position = pos]

Failed(s) == [s EXCEPT !.ok = FALSE]
Succeeded(s) == [s EXCEPT !.ok = TRUE]

\* The token type T (TokenRange::value_type) of a PatternMatcher<TokenRange>.
\* A std::string token is the sequence of its characters; a token of a class
\* with a `content` member is a record with the field content; a token of
\* any other type (an int, say) is its value.
StringToken == "std::string"
ContentTokens == {"content: std::string", "content: std::string_view"}

\* get_token_content<T>(token): the member `content` when T has one, the
\* token itself when T converts to std::string, the empty string otherwise.
get_token_content(T, token) ==
    IF T \in ContentTokens THEN token.content
    ELSE IF T = StringToken THEN token
    ELSE <<>>

\* match_literal without the comparison: any token is taken for the literal.
match_literal_any_token(node, input, s) ==
    IF s.input_pos >= Len(input)
    THEN Failed(set_error(s, Msg("Unexpected end of input while matching literal", <<>>, <<>>),
                          node.source_position))
    ELSE Succeeded([s EXCEPT !.input_pos = @ + 1])

match_literal(node, input, s) ==
    IF s.input_pos >= Len(input)
    THEN Failed(set_error(s, Msg("Unexpected end of input while matching literal", <<>>, <<>>),
                          node.source_position))
    ELSE LET token_content == get_token_content(s.token_type, input[s.input_pos + 1])
         IN  IF token_content = node.content
             THEN Succeeded([s EXCEPT !.input_pos = @ + 1])
             ELSE Failed(set_error(s, Msg("Expected literal", node.content, token_content),
                                   node.source_position))

match_variable(node, input, s) ==
    IF s.input_pos >= Len(input)
    THEN Failed(set_error(s, Msg("Unexpected end of input while matching variable", <<>>, <<>>),
                          node.source_position))
    ELSE Succeeded([s EXCEPT
            !.captures = Append(@, [name |-> node.content, token |-> input[s.input_pos + 1]]),
            !.input_pos = @ + 1])

\* match_operator without the comparison: any token is taken for the operator.
match_operator_any_token(node, input, s) ==
    IF s.input_pos >= Len(input)
    THEN Failed(set_error(s, Msg("Unexpected end of input while matching operator", <<>>, <<>>),
                          node.source_position))
    ELSE Succeeded([s EXCEPT !.input_pos = @ + 1])

match_operator(node, input, s) ==
    IF s.input_pos >= Len(input)
    THEN Failed(set_error(s, Msg("Unexpected end of input while matching operator", <<>>, <<>>),
                          node.source_position))
    ELSE LET token_content == get_token_content(s.token_type, input[s.input_pos + 1])
         IN  IF token_content = node.content
             THEN Succeeded([s EXCEPT !.input_pos = @ + 1])
             ELSE Failed(set_error(s, Msg("Expected operator", node.content, token_content),
                                   node.source_position))

RECURSIVE match_node(_, _, _)
RECURSIVE sequence_loop(_, _, _, _)
RECURSIVE optional_loop(_, _, _, _)
RECURSIVE repetition_loop(_, _, _, _)

\* The for loop of match_sequence over node.children.
sequence_loop(children, input, s, saved_pos) ==
    IF children = <<>> THEN Succeeded(s)
    ELSE LET r == match_node(Head(children), input, s)
         IN  IF r.exhausted THEN r
             ELSE IF ~r.ok
                  THEN Failed([r EXCEPT !.input_pos = saved_pos])
                  ELSE sequence_loop(Tail(children), input, r, saved_pos)

match_sequence(node, input, s) ==
    sequence_loop(node.children, input, s, s.input_pos)

\* The for loop of match_optional over node.children.
optional_loop(children, input, s, saved_pos) ==
    IF children = <<>> THEN Succeeded(s)
    ELSE LET r == match_node(Head(children), input, s)
         IN  IF r.exhausted THEN r
             ELSE IF ~r.ok
                  THEN Succeeded([r EXCEPT !.input_pos = saved_pos,
                                           !.error_message = NoMessage])
                  ELSE optional_loop(Tail(children), input, r, saved_pos)

\* match_optional without error_message.clear(): the error of the child that
\* failed stays.
match_optional_keeping_error(node, input, s) ==
    LET r == sequence_loop(node.children, input, s, s.input_pos)
    IN  IF r.exhausted THEN r ELSE Succeeded(r)

\* match_optional failing when a child fails, as match_sequence does.
match_optional_as_sequence(node, input, s) ==
    sequence_loop(node.children, input, s, s.input_pos)

match_optional(node, input, s) ==
    optional_loop(node.children, input, s, s.input_pos)

\* The while loop of match_repetition; s.matches counts the iterations.
repetition_loop(child, input, s, matches) ==
    IF s.input_pos < Len(input)
    THEN LET before_match == s.input_pos
             saved_error == s.error_message
             r == match_node(child, input, s)
         IN  IF r.exhausted THEN [st |-> r, matches |-> matches]
             ELSE IF ~r.ok
                  THEN [st |-> [r EXCEPT !.input_pos = before_match,
                                         !.error_message = saved_error],
                        matches |-> matches]
                  ELSE repetition_loop(child, input, r, matches + 1)
    ELSE [st |-> s, matches |-> matches]

\* match_repetition with `+` accepted after zero iterations, as `*` is.
match_repetition_plus_as_star(node, input, s) ==
    IF node.children = <<>>
    THEN Failed(set_error(s, Msg("Repetition with no child pattern", <<>>, <<>>),
                          node.source_position))
    ELSE LET l == repetition_loop(node.children[1], input, s, 0)
         IN  IF l.st.exhausted THEN l.st
             ELSE IF node.content[1] \in {"*", "+"} \/ l.matches <= 1
                  THEN Succeeded(l.st)
                  ELSE Failed(set_error(l.st,
                           Msg("Expected zero or one match for '?' repetition, got multiple", <<>>, <<>>),
                           node.source_position))

\* match_repetition with a loop that leaves the last token of the input to
\* the nodes after it.
match_repetition_leaving_last(node, input, s) ==
    IF node.children = <<>>
    THEN Failed(set_error(s, Msg("Repetition with no child pattern", <<>>, <<>>),
                          node.source_position))
    ELSE LET shorter == IF input = <<>> THEN input ELSE SubSeq(input, 1, Len(input) - 1)
             l == repetition_loop(node.children[1], shorter, s, 0)
         IN  IF l.st.exhausted THEN l.st
             ELSE IF node.content[1] = "*" \/ (node.content[1] = "+" /\ l.matches >= 1)
                     \/ (node.content[1] = "?" /\ l.matches <= 1)
                  THEN Succeeded(l.st)
                  ELSE Failed(set_error(l.st,
                           Msg("Expected one or more matches for '+' repetition", <<>>, <<>>),
                           node.source_position))

match_repetition(node, input, s) ==
    IF node.children = <<>>
    THEN Failed(set_error(s, Msg("Repetition with no child pattern", <<>>, <<>>),
                          node.source_position))
    ELSE LET child == node.children[1]
             op == node.content[1]
             l == repetition_loop(child, input, s, 0)
         IN  IF l.st.exhausted THEN l.st
             ELSE CASE op = "*" -> Succeeded(l.st)
                    [] op = "+" ->
                        IF l.matches = 0
                        THEN Failed(set_error(l.st,
                                 Msg("Expected one or more matches for '+' repetition", <<>>, <<>>),
                                 node.source_position))
                        ELSE Succeeded(l.st)
                    [] op = "?" ->
                        IF l.matches > 1
                        THEN Failed(set_error(l.st,
                                 Msg("Expected zero or one match for '?' repetition, got multiple", <<>>, <<>>),
                                 node.source_position))
                        ELSE Succeeded(l.st)
                    [] OTHER ->
                        Failed(set_error(l.st,
                                 Msg("Unknown repetition operator: ", node.content, <<>>),
                                 node.source_position))

match_node(node, input, s0) ==
    IF s0.visits >= MaxVisits
    THEN [s0 EXCEPT !.exhausted = TRUE, !.ok = FALSE]
    ELSE LET s == [s0 EXCEPT !.visits = @ + 1]
         IN  CASE node.type = "LITERAL" -> match_literal(node, input, s)
               [] node.type = "VARIABLE" -> match_variable(node, input, s)
               [] node.type = "SEQUENCE" -> match_sequence(node, input, s)
               [] node.type = "OPTIONAL" -> match_optional(node, input, s)
               [] node.type = "REPETITION" -> match_repetition(node, input, s)
               [] node.type = "OPERATOR" -> match_operator(node, input, s)
               [] OTHER -> Failed(set_error(s, Msg("Unknown node type", <<>>, <<>>),
                                            node.source_position))

\* PatternMatcher<std::vector<T>>(p, i): the members after construction, and
\* the token type the class is instantiated with.
NewMatcherOf(T, p, i) ==
    [pattern |-> p, input |-> i, captures |-> <<>>,
     error_message |-> NoMessage, error_position |-> 0, token_type |-> T]

\* PatternMatcher(p, i) on a std::vector<std::string>, as the tests and the
\* expanders construct it.
NewMatcher(p, i) == NewMatcherOf(StringToken, p, i)

\* The state match() starts match_node in: input_pos = 0, the members
\* (captures, error_message, error_position) as they are.
EntryState(m) ==
    [ok |-> FALSE, input_pos |-> 0, captures |-> m.captures,
     error_message |-> m.error_message, error_position |-> m.error_position,
     token_type |-> m.token_type, visits |-> 0, exhausted |-> FALSE]

\* bool match(): the state match_node leaves; .ok is the value returned.
match(m) == match_node(m.pattern, m.input, EntryState(m))

has_error(m) == m.error_message # NoMessage
get_captures(m) == m.captures

(***************************************************************************)
(* PatternParser                                                           *)
(*                                                                         *)
(* A parser state `ps` holds the members (pattern, pos, error_message,     *)
(* error_position) and the number of parse_sequence loop iterations begun  *)
(* so far (iters).  Every iteration that ends with pos unchanged leaves    *)
(* the whole parser state unchanged, so once more iterations have begun    *)
(* than the pattern has characters the loop cannot end: the walk is cut    *)
(* there and `hung` says parse() does not return.                          *)
(***************************************************************************)
NUL == "\\0"
Letters == {"a", "b", "c", "d", "e", "f", "g", "h", "i", "j", "k", "l", "m",
            "n", "o", "p", "q", "r", "s", "t", "u", "v", "w", "x", "y", "z",
            "A", "B", "C", "D", "E", "F", "G", "H", "I", "J", "K", "L", "M",
            "N", "O", "P", "Q", "R", "S", "T", "U", "V", "W", "X", "Y", "Z"}
Digits == {"0", "1", "2", "3", "4", "5", "6", "7", "8", "9"}
\* The vertical tab, which has no escape in a TLA+ string.
VT == "\\v"
\* std::isspace in the "C" locale: space, \t, \n, \v, \f, \r.
isspace(c) == c \in {" ", "\t", "\n", VT, "\f", "\r"}
isalnum(c) == c \in Letters \cup Digits

\* PatternParser(p): the members after construction.
NewParser(p) ==
    [pattern |-> p, pos |-> 0, error_message |-> "", error_position |-> 0,
     iters |-> 0, hung |-> FALSE]

peek(ps) == IF ps.pos < Len(ps.pattern) THEN ps.pattern[ps.pos + 1] ELSE NUL

\* advance() returns peek() and moves on; this is the state it leaves.
advance(ps) == IF ps.pos < Len(ps.pattern) THEN [ps EXCEPT !.pos = @ + 1] ELSE ps

RECURSIVE skip_whitespace(_)
skip_whitespace(ps) ==
    IF ps.pos < Len(ps.pattern) /\ isspace(ps.pattern[ps.pos + 1])
    THEN skip_whitespace([ps EXCEPT !.pos = @ + 1])
    ELSE ps

\* is_operator with `-` forgotten.
is_operator_without_minus(c) == c \in {"+", "*", "/", "="}

is_operator(c) == c \in {"+", "-", "*", "/", "="}

is_repetition_operator(c) == c \in {"*", "+", "?"}

\* set_error recording the position and forgetting the message.
parser_set_error_position_only(ps, message) ==
    [ps EXCEPT !.error_position = ps.pos]

parser_set_error(ps, message) ==
    [ps EXCEPT !.error_message = message, !.error_position = ps.pos]

\* std::string(pattern.substr(start, len))
substr(str, start, len) == SubSeq(str, start + 1, start + len)

RECURSIVE variable_loop(_)
variable_loop(ps) ==
    IF ps.pos < Len(ps.pattern) /\ (isalnum(peek(ps)) \/ peek(ps) = "_")
    THEN variable_loop(advance(ps))
    ELSE ps

\* parse_variable without the test for an empty name.
parse_variable_without_check(ps0) ==
    LET start == ps0.pos
        ps == variable_loop(ps0)
    IN  [node |-> PatternNode("VARIABLE", substr(ps.pattern, start, ps.pos - start), start),
         ps |-> ps]

parse_variable(ps0) ==
    LET start == ps0.pos
        ps == variable_loop(ps0)
    IN  IF start = ps.pos
        THEN [node |-> PatternNode("VARIABLE", <<>>, start),
              ps |-> parser_set_error(ps, "Empty variable name")]
        ELSE [node |-> PatternNode("VARIABLE", substr(ps.pattern, start, ps.pos - start), start),
              ps |-> ps]

RECURSIVE literal_loop(_)
literal_loop(ps) ==
    IF /\ ps.pos < Len(ps.pattern)
       /\ ~isspace(peek(ps))
       /\ peek(ps) \notin {"$", "(", ")", "[", "]", "\\"}
       /\ ~is_operator(peek(ps))
       /\ peek(ps) \notin {"?", ","}
    THEN literal_loop(advance(ps))
    ELSE ps

parse_literal(ps0) ==
    LET start == ps0.pos
        ps == literal_loop(ps0)
    IN  [node |-> PatternNode("LITERAL", substr(ps.pattern, start, ps.pos - start), start),
         ps |-> ps]

push_back(seq, node) == [seq EXCEPT !.children = Append(@, node)]

\* handle_repetition(seq): the result is the sequence and the parser state.
handle_repetition(seq, ps) ==
    IF seq.children = <<>>
    THEN [node |-> seq,
          ps |-> parser_set_error(ps, "Repetition operator without preceding element")]
    ELSE LET rep_pos == ps.pos
             op_str == <<peek(ps)>>
             n == Len(seq.children)
             rep == WithChildren(PatternNode("REPETITION", op_str, rep_pos),
                                 <<seq.children[n]>>)
         IN  [node |-> [seq EXCEPT !.children[n] = rep], ps |-> advance(ps)]

\* An escaped character that is_operator accepts is made an Operator node.
escaped_operator(ps1) ==
    LET escaped == peek(ps1)
        ps2 == advance(ps1)
    IN  PatternNode(IF is_operator(escaped) THEN "OPERATOR" ELSE "LITERAL",
                    <<escaped>>, ps2.pos - 2)

\* char escaped = advance(); PatternNode lit(LITERAL, std::string(1, escaped), pos - 2)
\* where ps1 is the parser after the backslash was read.
escaped_literal(ps1) ==
    LET escaped == peek(ps1)
        ps2 == advance(ps1)
    IN  PatternNode("LITERAL", <<escaped>>, ps2.pos - 2)

RECURSIVE parse_sequence(_)
RECURSIVE parse_loop(_, _)

\* The while loop of parse_sequence.
parse_loop(seq, ps0) ==
    IF ~(ps0.pos < Len(ps0.pattern) /\ peek(ps0) \notin {")", "}", "]"})
    THEN [node |-> seq, ps |-> ps0]
    ELSE IF ps0.iters > Len(ps0.pattern)
    THEN [node |-> seq, ps |-> [ps0 EXCEPT !.hung = TRUE]]
    ELSE
    LET ps == skip_whitespace([ps0 EXCEPT !.iters = @ + 1])
    IN  IF ps.pos >= Len(ps.pattern) THEN [node |-> seq, ps |-> ps]
        ELSE IF peek(ps) = "$"
        THEN LET var_pos == ps.pos
                 v == parse_variable(advance(ps))
             IN  parse_loop(push_back(seq, [v.node EXCEPT !.source_position = var_pos]), v.ps)
        ELSE IF peek(ps) = "\\"
        THEN LET ps1 == advance(ps)
             IN  IF ps1.pos >= Len(ps1.pattern)
                 THEN [node |-> seq,
                       ps |-> parser_set_error(ps1, "Unexpected end of pattern after escape character")]
                 ELSE parse_loop(push_back(seq, escaped_literal(ps1)), advance(ps1))
        ELSE IF is_operator(peek(ps))
        THEN LET is_binary_op ==
                     ~(/\ is_repetition_operator(peek(ps))
                       /\ seq.children # <<>>
                       /\ ps.pos > 0
                       /\ ~isspace(ps.pattern[ps.pos]))
             IN  IF is_binary_op
                 THEN parse_loop(push_back(seq,
                                     PatternNode("OPERATOR", <<peek(ps)>>, ps.pos)),
                                 advance(ps))
                 ELSE LET h == handle_repetition(seq, ps)
                      IN  parse_loop(h.node, h.ps)
        ELSE IF peek(ps) = "("
        THEN LET group_pos == ps.pos
                 g == parse_sequence(advance(ps))
                 group == [g.node EXCEPT !.source_position = group_pos]
             IN  IF g.ps.hung THEN [node |-> seq, ps |-> g.ps]
                 ELSE IF peek(g.ps) = ")"
                 THEN parse_loop(push_back(seq, group), advance(g.ps))
                 ELSE parse_loop(push_back(seq, group),
                                 parser_set_error(g.ps, "Unclosed group: missing ')'"))
        ELSE IF peek(ps) = "["
        THEN LET opt_pos == ps.pos
                 g == parse_sequence(advance(ps))
                 opt == WithChildren(PatternNode("OPTIONAL", <<>>, opt_pos), <<g.node>>)
             IN  IF g.ps.hung THEN [node |-> seq, ps |-> g.ps]
                 ELSE IF peek(g.ps) = "]"
                 THEN parse_loop(push_back(seq, opt), advance(g.ps))
                 ELSE parse_loop(push_back(seq, opt),
                                 parser_set_error(g.ps, "Unclosed optional group: missing ']'"))
        ELSE IF ~isspace(peek(ps))
        THEN LET l == parse_literal(ps)
             IN  IF l.node.content # <<>>
                 THEN parse_loop(push_back(seq, l.node), l.ps)
                 ELSE parse_loop(seq, l.ps)
        ELSE parse_loop(seq, advance(ps))

parse_sequence(ps) ==
    parse_loop(PatternNode("SEQUENCE", <<>>, ps.pos), ps)

\* parse() without the test for characters left unread.
parse_without_end_check(ps0) ==
    LET r == parse_sequence(skip_whitespace(ps0))
    IN  IF r.ps.hung THEN r ELSE [node |-> r.node, ps |-> skip_whitespace(r.ps)]

\* PatternNode parse(): the node returned and the members it leaves.
parse(ps0) ==
    LET r == parse_sequence(skip_whitespace(ps0))
        ps == skip_whitespace(r.ps)
    IN  IF r.ps.hung THEN r
        ELSE IF ps.pos < Len(ps.pattern)
        THEN [node |-> r.node,
              ps |-> parser_set_error(ps, "Unexpected characters at end of pattern")]
        ELSE [node |-> r.node, ps |-> ps]

parser_has_error(ps) == ps.error_message # ""

(***************************************************************************)
(* Inputs of the matcher specification: hand-built pattern ASTs and token  *)
(* sequences (std::vector<std::string>, as in the tests).                  *)
(***************************************************************************)
TokenTexts == {<<"x">>, <<"+">>}

SeqsUpTo(S, n) == UNION {[1..k -> S] : k \in 0..n}

Inputs == SeqsUpTo(TokenTexts, MaxTokens)

Leaves == {LitNode(<<"x">>), OpNode(<<"+">>), VarNode(<<"a">>), VarNode(<<"b">>)}

\* Children of the top-level sequence: atoms, groups, optionals, repetitions.
Items ==
    Leaves
    \cup {SeqNode(ch) : ch \in SeqsUpTo(Leaves, 2)}
    \cup {OptNode(<<SeqNode(ch)>>) : ch \in SeqsUpTo(Leaves, 2)}
    \cup {RepNode(op, l) : op \in {"*", "+", "?"}, l \in Leaves}
    \cup {RepNode(op, OptNode(<<SeqNode(<<l>>)>>)) : op \in {"*", "+"}, l \in Leaves}
    \cup {RepNode("*", SeqNode(<<>>)), RepNode("*", RepNode("*", VarNode(<<"a">>)))}

\* The pattern handed to the matcher: a sequence of items, or a bare optional
\* or repetition node.
Patterns ==
    {SeqNode(ch) : ch \in SeqsUpTo(Items, 2)}
    \cup {i \in Items : i.type \in {"OPTIONAL", "REPETITION"}}
    \cup {OptNode(<<VarNode(<<"a">>), LitNode(<<"x">>)>>)}
    \cup {RepNode(op, SeqNode(<<l1, l2>>)) : op \in {"*", "+", "?"}, l1 \in Leaves, l2 \in Leaves}

\* The pattern "$var1 + $var2" as test_pattern_matcher builds it, and its
\* three-token inputs.
TestPattern ==
    SeqNode(<<VarNode(<<"v", "a", "r", "1">>), OpNode(<<"+">>), VarNode(<<"v", "a", "r", "2">>)>>)

\* The pattern `$a + $b` of the documented scenario, built the same way.
BinaryPattern == SeqNode(<<VarNode(<<"a">>), OpNode(<<"+">>), VarNode(<<"b">>)>>)

TestInputs == [1..3 -> {<<"1", "0">>, <<"2", "0">>, <<"+">>, <<"-">>}]

\* The value of `parser` in the specifications that construct no PatternParser.
NoParser == [pattern |-> <<>>, pos |-> 0, error_message |-> "", error_position |-> 0,
             state |-> "unused", result |-> SeqNode(<<>>)]
NoOutcome == [op |-> "none", kind |-> "none"]

InitMatcher ==
    /\ \/ \E p \in Patterns, i \in Inputs : matcher = NewMatcher(p, i)
       \/ \E p \in {TestPattern, BinaryPattern}, i \in Inputs \cup TestInputs :
             matcher = NewMatcher(p, i)
    /\ call = <<>>
    /\ parser = NoParser
    /\ rules = <<>>
    /\ tokens = <<>>
    /\ outcome = NoOutcome
    /\ parse_calls = <<>>

Returned(c) == c.ret # "no return"

\* matcher.match(): the members are written by the walk; the call record keeps
\* what the call returned and the local input_pos at the return.
Match ==
    /\ Len(call) < MaxCalls
    /\ call # <<>> => Returned(call[Len(call)])
    /\ LET r == match(matcher)
       IN  /\ matcher' = [matcher EXCEPT !.captures = r.captures,
                                         !.error_message = r.error_message,
                                         !.error_position = r.error_position]
           /\ call' = Append(call,
                  [ret |-> IF r.exhausted THEN "no return"
                           ELSE IF r.ok THEN "true" ELSE "false",
                   input_pos |-> r.input_pos,
                   visits |-> r.visits,
                   entry |-> [captures |-> matcher.captures,
                             error_message |-> matcher.error_message,
                             error_position |-> matcher.error_position]])
    /\ UNCHANGED <<parser, rules, tokens, outcome, parse_calls>>

NextMatcher == Match

SpecMatcher == InitMatcher /\ [][NextMatcher]_vars

(***************************************************************************)
(* The parser specification: a PatternParser is constructed on a pattern   *)
(* text and parse() is called on it once.                                  *)
(***************************************************************************)
MaxTextLen == 3     \* longest pattern text enumerated character by character

\* One character of every class PatternParser tells apart: `$`, a letter, a
\* digit, `_`, two whitespace characters, the operators, `?`, `,`, the
\* brackets, `}` (which ends a sequence and does not end a literal), the
\* backslash, and `!`, an ordinary character that is no part of a name.
ParserAlphabet ==
    {"$", "a", "1", "_", " ", "\f", "+", "*", "-", "/", "=", "?", ",",
     "(", ")", "[", "]", "}", "\\", "!"}

\* The rule patterns of vec.hpp: "vec! [ ]", "vec! [ $expr+ ]" and
\* "vec! [ $expr ; $count ]".
VecRuleTexts ==
    << <<"v", "e", "c", "!", " ", "[", " ", "]">>,
       <<"v", "e", "c", "!", " ", "[", " ", "$", "e", "x", "p", "r", "+", " ", "]">>,
       <<"v", "e", "c", "!", " ", "[", " ", "$", "e", "x", "p", "r", " ", ";", " ",
         "$", "c", "o", "u", "n", "t", " ", "]">> >>

\* The pattern texts of test_pattern_parser and the rule patterns of vec.hpp.
SampleTexts ==
    { <<"$", "v", "a", "r", "1", " ", "+", " ", "$", "v", "a", "r", "2">>,
      <<"$", "v", "a", "r", "1", " ", "\\", "+", " ", "$", "v", "a", "r", "2">>,
      <<"$", "v", "a", "r", "1", "+", " ", "$", "v", "a", "r", "2">>,
      <<"$", "v", "a", "r", "1", " ", "+", " ", "$">> }
    \cup {VecRuleTexts[i] : i \in 1..3}

Texts == SeqsUpTo(ParserAlphabet, MaxTextLen) \cup SampleTexts

InitParser ==
    /\ \E t \in Texts :
          parser = [pattern |-> t, pos |-> 0, error_message |-> "", error_position |-> 0,
                    state |-> "constructed", result |-> SeqNode(<<>>)]
    /\ matcher = NewMatcher(SeqNode(<<>>), <<>>)
    /\ call = <<>>
    /\ rules = <<>>
    /\ tokens = <<>>
    /\ outcome = NoOutcome
    /\ parse_calls = <<>>

\* parser.parse()
Parse ==
    /\ parser.state = "constructed"
    /\ LET r == parse(NewParser(parser.pattern))
       IN  parser' = [pattern |-> parser.pattern,
                      pos |-> r.ps.pos,
                      error_message |-> r.ps.error_message,
                      error_position |-> r.ps.error_position,
                      state |-> IF r.ps.hung THEN "no return" ELSE "returned",
                      result |-> r.node]
    /\ UNCHANGED <<matcher, call, rules, tokens, outcome, parse_calls>>

NextParser == Parse

SpecParser == InitParser /\ [][NextParser]_vars

(***************************************************************************)
(* The scenario specification: a pattern text is parsed, a PatternMatcher  *)
(* is constructed on the node parse() returned and on a token sequence,    *)
(* and match() is called on it.                                            *)
(***************************************************************************)
\* Token sequences for the vec rules: `vec` and `!` as two tokens, as the
\* documented scenarios have them, and `vec!` as one token, as the literal of
\* the rule patterns of vec.hpp has it, with and without bracket tokens.
VecInputs ==
    { << <<"v", "e", "c">>, <<"!">>, <<"[">>, <<"]">> >>,
      << <<"v", "e", "c">>, <<"!">>, <<"[">>, <<"1">>, <<"2">>, <<"3">>, <<"]">> >>,
      << <<"v", "e", "c">>, <<"!">>, <<"[">>, <<"7">>, <<";">>, <<"3">>, <<"]">> >>,
      << <<"v", "e", "c", "!">>, <<"[">>, <<"]">> >>,
      << <<"v", "e", "c", "!">>, <<"1">>, <<"2">>, <<"3">> >>,
      << <<"v", "e", "c", "!">>, <<"7">>, <<";">>, <<"3">> >> }

\* The rule patterns of the documented vec scenarios: "vec ! [ ]",
\* "vec ! [ $e+ ]" and "vec ! [ $e ; $n ]".
ScenarioRuleTexts ==
    << <<"v", "e", "c", " ", "!", " ", "[", " ", "]">>,
       <<"v", "e", "c", " ", "!", " ", "[", " ", "$", "e", "+", " ", "]">>,
       <<"v", "e", "c", " ", "!", " ", "[", " ", "$", "e", " ", ";", " ", "$", "n", " ", "]">> >>

\* The pattern texts handed to a PatternParser: those of the tests and of
\* vec.hpp, and those of the documented scenarios.
ScenarioTexts ==
    SampleTexts \cup {ScenarioRuleTexts[i] : i \in 1..3} \cup
    { <<"$", "a", " ", "+", " ", "$", "b">>,
      <<"$", "a", "?">>, <<"$", "a", "*">>, <<"$", "a", "+">>,
      <<"v", "e", "c", " ", "!", " ", "\\", "[", " ", "$", "e", " ", ";", " ", "$", "n", " ", "\\", "]">> }

ScenarioInputs == SeqsUpTo(TokenTexts, MaxTokens) \cup VecInputs

InitScenario ==
    /\ \E t \in ScenarioTexts :
          parser = [pattern |-> t, pos |-> 0, error_message |-> "", error_position |-> 0,
                    state |-> "constructed", result |-> SeqNode(<<>>)]
    /\ tokens \in ScenarioInputs
    /\ matcher = NewMatcher(SeqNode(<<>>), <<>>)
    /\ call = <<>>
    /\ rules = <<>>
    /\ outcome = NoOutcome
    /\ parse_calls = <<>>

\* PatternMatcher matcher(pattern, tokens) on the node parse() returned.
ConstructMatcher ==
    /\ parser.state = "returned"
    /\ call = <<>>
    /\ matcher' = NewMatcher(parser.result, tokens)
    /\ UNCHANGED <<parser, call, rules, tokens, outcome, parse_calls>>

\* A PatternMatcher was constructed on the parsed pattern and the tokens.
Constructed ==
    /\ parser.state = "returned"
    /\ matcher.pattern = parser.result
    /\ matcher.input = tokens

NextScenario == Parse \/ ConstructMatcher \/ (Constructed /\ Match)

SpecScenario == InitScenario /\ [][NextScenario]_vars

(***************************************************************************)
(* MacroRule and the expanders.                                            *)
(*                                                                         *)
(* A generator is [generator, result, tuple_expand, header]: what the      *)
(* user's Generator::expand does when called ("returns", or "throws" an    *)
(* exception derived from std::exception), the declared return type of its *)
(* two-argument overload, whether the expression                           *)
(* Generator::expand(std::tuple<int>) compiles ("valid", or "invalid" when *)
(* there is no such overload or its body does not compile for the tuple),  *)
(* and whether the header that declares the generator compiles.            *)
(* A rule is [pattern, generator, result, well_formed]: the pattern text   *)
(* of MacroRule<Pattern, Generator>, the generator's behaviour and return  *)
(* type, and whether the type MacroRule<Pattern, Generator> exists.        *)
(* What a generator returns is opaque: a call is modelled as the record of *)
(* who was called with what.  A call the compiler rejects has the outcome  *)
(* "ill-formed": no program containing it is built.                        *)
(***************************************************************************)
\* concept MacroGeneratorType<T>: T::expand(std::tuple<int>) is an expression
\* the compiler accepts.
MacroGeneratorType(g) == g.tuple_expand = "valid"

\* Some rule of the list is no type: every expander over the list is rejected.
ill_formed_rules(Rules) == \E i \in DOMAIN Rules : ~Rules[i].well_formed

\* MacroRule::parse_pattern(): the parser is a local, only the node comes back.
parse_pattern(rule) == parse(NewParser(rule.pattern))

\* What a call does: it returns a value, throws, or does not return.  `rule` is
\* the index of the rule whose generator threw, -1 when the expander itself threw.
Value(v) == [kind |-> "value", value |-> v]
Throw(type, what, rule) == [kind |-> "throw", type |-> type, what |-> what, rule |-> rule]
NoReturn == [kind |-> "no return"]
IllFormed(what) == [kind |-> "ill-formed", what |-> what]

\* Rule::generator::expand(input, captures) of rule I.
generator_expand2(rule, I, input, captures) ==
    IF rule.generator = "throws"
    THEN Throw("std::exception", "generator error", I)
    ELSE Value([rule |-> I, input |-> input, captures |-> captures])

\* Rule::generator::expand(input) of rule I (the one-argument overload).
generator_expand1(rule, I, input) ==
    IF rule.generator = "throws"
    THEN Throw("std::exception", "generator error", I)
    ELSE Value([rule |-> I, input |-> input])

RECURSIVE try_match_rule(_, _, _)
\* macro::Expander<Rules...>::try_match_rule<I>(input)
try_match_rule(I, Rules, input) ==
    IF I >= Len(Rules)
    THEN Throw("std::runtime_error", "No matching macro rule found", -1)
    ELSE LET Rule == Rules[I + 1]
             pattern == parse_pattern(Rule)
         IN  IF pattern.ps.hung THEN NoReturn
             ELSE LET m == match(NewMatcher(pattern.node, input))
                  IN  IF m.exhausted THEN NoReturn
                      ELSE IF m.ok
                      THEN generator_expand2(Rule, I, input, m.captures)
                      ELSE try_match_rule(I + 1, Rules, input)

RECURSIVE deduced_return_type(_, _)
\* The type `auto` stands for in try_match_rule<I>: the branch that only throws
\* has no return statement (void); the other branch has two return statements,
\* the generator's call and try_match_rule<I + 1>, which must agree.
deduced_return_type(I, Rules) ==
    IF I >= Len(Rules) THEN "void"
    ELSE LET next == deduced_return_type(I + 1, Rules)
         IN  IF next = Rules[I + 1].result THEN next ELSE "inconsistent"

RECURSIVE rules_parsed(_, _, _)
\* The rules whose parse_pattern() try_match_rule<I>(input) calls, itself or
\* through try_match_rule<I + 1>: each rule it reaches, up to the first one
\* that matches (or whose parse or match does not return).
rules_parsed(I, Rules, input) ==
    IF I >= Len(Rules) THEN {}
    ELSE LET pattern == parse_pattern(Rules[I + 1])
         IN  {I} \cup
             IF pattern.ps.hung THEN {}
             ELSE LET m == match(NewMatcher(pattern.node, input))
                  IN  IF m.exhausted \/ m.ok THEN {}
                      ELSE rules_parsed(I + 1, Rules, input)

\* macro::Expander<Rules...>::expand(input): catch and rethrow.
expand(Rules, input) ==
    IF ill_formed_rules(Rules)
    THEN IllFormed("template constraint failure for MacroRule")
    ELSE IF deduced_return_type(0, Rules) = "inconsistent"
    THEN IllFormed("inconsistent deduction for auto return type")
    ELSE try_match_rule(0, Rules, input)

\* macro::Expander<Rules...>::try_expand(input): std::optional of the value.
try_expand(Rules, input) ==
    IF ill_formed_rules(Rules)
    THEN IllFormed("template constraint failure for MacroRule")
    ELSE IF deduced_return_type(0, Rules) = "inconsistent"
    THEN IllFormed("inconsistent deduction for auto return type")
    ELSE IF deduced_return_type(0, Rules) = "void"
    THEN IllFormed("std::optional<void>")
    ELSE LET r == try_match_rule(0, Rules, input)
         IN  IF r.kind = "throw" THEN [kind |-> "nullopt"] ELSE r

\* nmac::MacroExpander<Rules...>::expand(input) -> try_match_rule<0>(input).
MacroExpander_expand(Rules, input) ==
    IF ill_formed_rules(Rules)
    THEN IllFormed("template constraint failure for MacroRule")
    ELSE generator_expand1(Rules[1], 0, input)

(***************************************************************************)
(* The expander specification: an expander over a rule list is called on a *)
(* token sequence.                                                         *)
(***************************************************************************)
MaxRules == 2           \* longest rule list
MaxExpandTokens == 2    \* longest token sequence handed to an expander
MaxParseCalls == 2      \* parse_pattern() calls followed per rule

RuleTexts ==
    { <<>>,                                   \* ""
      <<"[", "$", "a", " ", "x", "]", " ", "$", "b">>,   \* "[$a x] $b"
      <<"$", "a">>,                           \* "$a"
      <<"$", "a", " ", "$", "b">>,            \* "$a $b"
      <<"x", " ", "$", "a">>,                 \* "x $a"
      <<"$">>,                                \* "$"      (empty variable name)
      <<"x", " ", "?">> }                     \* "x ?"    (parse() does not return)

\* User generators: what Generator::expand does, the return type of
\* expand(input, captures), and whether expand(std::tuple<int>) compiles.
Generators ==
    { [generator |-> "returns", result |-> "void", tuple_expand |-> "valid",
       header |-> "well-formed"],
      [generator |-> "throws",  result |-> "void", tuple_expand |-> "valid",
       header |-> "well-formed"],
      [generator |-> "returns", result |-> "std::string", tuple_expand |-> "valid",
       header |-> "well-formed"],
      [generator |-> "returns", result |-> "void", tuple_expand |-> "invalid",
       header |-> "well-formed"] }

\* The generators of vec.hpp.  They catch what std::stoi throws and return a
\* std::vector<int>.  expand(const Tuple&) of VecEmptyGenerator ignores the
\* tuple and that of VecListGenerator applies a variadic lambda to it; that of
\* VecRepeatGenerator applies a two-parameter lambda, which does not compile
\* for std::tuple<int>.  vec.hpp itself does not compile: it specializes
\* CommonType<First, Rest...> for no arguments.
VecEmptyGenerator ==
    [generator |-> "returns", result |-> "std::vector<int>", tuple_expand |-> "valid",
     header |-> "ill-formed"]
VecListGenerator ==
    [generator |-> "returns", result |-> "std::vector<int>", tuple_expand |-> "valid",
     header |-> "ill-formed"]
VecRepeatGenerator ==
    [generator |-> "returns", result |-> "std::vector<int>", tuple_expand |-> "invalid",
     header |-> "ill-formed"]

\* MacroRule<Pattern, Generator> requires MacroGeneratorType<Generator>.
MacroRule(text, g) ==
    [pattern |-> text, generator |-> g.generator, result |-> g.result,
     well_formed |-> g.header = "well-formed" /\ MacroGeneratorType(g)]

RuleLists ==
    UNION {[1..k -> {MacroRule(text, g) : text \in RuleTexts, g \in Generators}] : k \in 1..MaxRules}

\* The rule list of VecExpander (vec.hpp): VecEmptyRule, VecListRule,
\* VecRepeatRule.
VecRuleLists ==
    { << MacroRule(VecRuleTexts[1], VecEmptyGenerator),
         MacroRule(VecRuleTexts[2], VecListGenerator),
         MacroRule(VecRuleTexts[3], VecRepeatGenerator) >> }

\* The rule list of the documented vec scenario, with every choice of user
\* generators.
ScenarioRuleLists ==
    {[i \in 1..3 |-> MacroRule(ScenarioRuleTexts[i], g[i])] : g \in [1..3 -> Generators]}

InitExpander ==
    /\ \/ rules \in RuleLists /\ tokens \in SeqsUpTo(TokenTexts, MaxExpandTokens)
       \/ rules \in VecRuleLists \cup ScenarioRuleLists /\ tokens \in VecInputs
    /\ outcome = NoOutcome
    /\ parser = NoParser
    /\ matcher = NewMatcher(SeqNode(<<>>), <<>>)
    /\ call = <<>>
    /\ parse_calls = [i \in 1..Len(rules) |-> 0]

Called(op, r) == [op |-> op] @@ r

\* The parse_pattern() calls of one more call that parses the rules in `parsed`.
CountParses(parsed) ==
    [i \in 1..Len(rules) |-> parse_calls[i] + (IF (i - 1) \in parsed THEN 1 ELSE 0)]

Expand ==
    /\ outcome' = Called("expand", expand(rules, tokens))
    /\ parse_calls' = IF outcome'.kind = "ill-formed" THEN parse_calls
                      ELSE CountParses(rules_parsed(0, rules, tokens))
    /\ \A i \in 1..Len(rules) : parse_calls'[i] <= MaxParseCalls
    /\ UNCHANGED <<parser, matcher, call, rules, tokens>>

TryExpand ==
    /\ outcome' = Called("try_expand", try_expand(rules, tokens))
    /\ parse_calls' = IF outcome'.kind = "ill-formed" THEN parse_calls
                      ELSE CountParses(rules_parsed(0, rules, tokens))
    /\ \A i \in 1..Len(rules) : parse_calls'[i] <= MaxParseCalls
    /\ UNCHANGED <<parser, matcher, call, rules, tokens>>

\* nmac::MacroExpander::expand parses no pattern.
MacroExpanderExpand ==
    /\ outcome' = Called("MacroExpander::expand", MacroExpander_expand(rules, tokens))
    /\ UNCHANGED <<parser, matcher, call, rules, tokens, parse_calls>>

NextExpander == Expand \/ TryExpand \/ MacroExpanderExpand

SpecExpander == InitExpander /\ [][NextExpander]_vars

(***************************************************************************)
(* Properties of the matcher (checked under SpecMatcher).                  *)
(***************************************************************************)
\* parse() was called on the parser (it returned or it did not).
ParseCalled == parser.state \in {"returned", "no return"}

LastCall == call[Len(call)]

\* The capture list after call k: the members at the entry of call k+1, or the
\* current members after the last call.
CapturesAfter(k) == IF k < Len(call) THEN call[k + 1].entry.captures ELSE matcher.captures

\* C1: match() reports success only if the final input index equals the number
\* of tokens; so the empty pattern (a Sequence with no children) matches iff
\* the token sequence is empty.
C1_TotalMatch ==
    \A k \in 1..Len(call) :
        /\ call[k].ret = "true" => call[k].input_pos = Len(matcher.input)
        /\ (matcher.pattern = SeqNode(<<>>) /\ Returned(call[k]))
              => (call[k].ret = "true" <=> matcher.input = <<>>)

RECURSIVE FailedIterationKeepsCaptures(_, _, _)
\* Walks the iterations of a repetition over `child` from state s: the iteration
\* that fails leaves the captures it was entered with.
FailedIterationKeepsCaptures(child, input, s) ==
    IF s.input_pos >= Len(input) THEN TRUE
    ELSE LET r == match_node(child, input, s)
         IN  IF r.exhausted THEN TRUE
             ELSE IF ~r.ok THEN r.captures = s.captures
             ELSE FailedIterationKeepsCaptures(child, input, r)

\* C2: checkpoint property, for the node match() is entered with: when a
\* Sequence fails on a child, an Optional's inner match fails, or a Repetition
\* iteration fails, the capture list on exit is the capture list on entry.
C2_Checkpoint ==
    (call # <<>> /\ Returned(LastCall)) =>
        LET root == matcher.pattern
            s0 == EntryState([matcher EXCEPT
                                 !.captures = LastCall.entry.captures,
                                 !.error_message = LastCall.entry.error_message,
                                 !.error_position = LastCall.entry.error_position])
        IN  /\ (root.type = "SEQUENCE" /\ LastCall.ret = "false")
                  => matcher.captures = LastCall.entry.captures
            /\ (root.type = "OPTIONAL"
                  /\ ~sequence_loop(root.children, matcher.input, s0, 0).ok)
                  => matcher.captures = LastCall.entry.captures
            /\ root.type = "REPETITION"
                  => FailedIterationKeepsCaptures(root.children[1], matcher.input, s0)

\* The matches of Variable nodes that are part of a match of `node` from token
\* index pos, in the order the tokens were consumed: [ok, pos, caps].  A node
\* that fails, an Optional whose inner match fails and a failed iteration of a
\* Repetition contribute none.
RECURSIVE Matched(_, _, _)
RECURSIVE MatchedAll(_, _, _)
RECURSIVE MatchedIterations(_, _, _, _)
Matched(node, input, pos) ==
    LET fail == [ok |-> FALSE, pos |-> pos, caps |-> <<>>]
    IN  CASE node.type \in {"LITERAL", "OPERATOR"} ->
                IF pos < Len(input) /\ input[pos + 1] = node.content
                THEN [ok |-> TRUE, pos |-> pos + 1, caps |-> <<>>]
                ELSE fail
          [] node.type = "VARIABLE" ->
                IF pos < Len(input)
                THEN [ok |-> TRUE, pos |-> pos + 1,
                      caps |-> <<[name |-> node.content, token |-> input[pos + 1]]>>]
                ELSE fail
          [] node.type = "SEQUENCE" ->
                LET r == MatchedAll(node.children, input, pos)
                IN  IF r.ok THEN r ELSE fail
          [] node.type = "OPTIONAL" ->
                LET r == MatchedAll(node.children, input, pos)
                IN  IF r.ok THEN r ELSE [fail EXCEPT !.ok = TRUE]
          [] node.type = "REPETITION" ->
                LET r == MatchedIterations(node.children[1], input, pos, 0)
                IN  IF \/ node.content = <<"*">>
                       \/ node.content = <<"+">> /\ r.n >= 1
                       \/ node.content = <<"?">> /\ r.n <= 1
                    THEN [ok |-> TRUE, pos |-> r.pos, caps |-> r.caps]
                    ELSE fail

MatchedAll(children, input, pos) ==
    IF children = <<>> THEN [ok |-> TRUE, pos |-> pos, caps |-> <<>>]
    ELSE LET r == Matched(Head(children), input, pos)
         IN  IF ~r.ok THEN r
             ELSE LET rest == MatchedAll(Tail(children), input, r.pos)
                  IN  [rest EXCEPT !.caps = r.caps \o @]

MatchedIterations(child, input, pos, n) ==
    IF pos >= Len(input) THEN [n |-> n, pos |-> pos, caps |-> <<>>]
    ELSE LET r == Matched(child, input, pos)
         IN  IF ~r.ok \/ r.pos = pos THEN [n |-> n, pos |-> pos, caps |-> <<>>]
             ELSE LET rest == MatchedIterations(child, input, r.pos, n + 1)
                  IN  [rest EXCEPT !.caps = r.caps \o @]

\* C4: after a successful match (of the whole input) on a fresh matcher the
\* capture list holds exactly one entry per Variable match that is part of the
\* successful match, in the order the tokens were consumed.
C4_CaptureOrder ==
    (call # <<>> /\ call[1].ret = "true" /\ call[1].input_pos = Len(matcher.input)) =>
        CapturesAfter(1) = Matched(matcher.pattern, matcher.input, 0).caps

\* C5: match() returns, within Size(pattern) x (token count + 1) node visits.
C5_MatcherTerminates ==
    \A k \in 1..Len(call) :
        /\ Returned(call[k])
        /\ call[k].visits <= Size(matcher.pattern) * (Len(matcher.input) + 1)

\* The Repetition node the pattern consists of: the pattern itself, or the only
\* child of the pattern's Sequence (as the repetition test builds it).
IsRepetitionPattern(p) ==
    \/ p.type = "REPETITION"
    \/ p.type = "SEQUENCE" /\ Len(p.children) = 1 /\ p.children[1].type = "REPETITION"

RepetitionOf(p) == IF p.type = "REPETITION" THEN p ELSE p.children[1]

\* One capture per token, all under `name`, in input order.
EveryTokenUnder(name, input) ==
    [i \in 1..Len(input) |-> [name |-> name, token |-> input[i]]]

\* C15: a `*` or `+` Repetition matches its child greedily until the child
\* fails or the input ends; `*` then succeeds, `+` succeeds iff at least one
\* iteration matched.  `$a+` fails on no tokens; `$a*` succeeds on every
\* token sequence and captures every token under a, in input order.
C15_StarPlus ==
    (/\ call # <<>> /\ Returned(call[1])
     /\ IsRepetitionPattern(matcher.pattern)
     /\ RepetitionOf(matcher.pattern).content \in {<<"*">>, <<"+">>}) =>
        LET node == RepetitionOf(matcher.pattern)
            greedy == MatchedIterations(node.children[1], matcher.input, 0, 0)
        IN  /\ call[1].ret = "true" <=> (node.content = <<"*">> \/ greedy.n >= 1)
            /\ call[1].ret = "true" => call[1].input_pos = greedy.pos
            /\ (node.content = <<"+">> /\ matcher.input = <<>>) => call[1].ret = "false"
            /\ call[1].ret = "false" =>
                  (IF Len(call) > 1 THEN call[2].entry.error_message ELSE matcher.error_message).text
                      = "Expected one or more matches for '+' repetition"
            /\ node = RepNode("*", VarNode(<<"a">>)) =>
                  /\ call[1].ret = "true"
                  /\ CapturesAfter(1) = EveryTokenUnder(<<"a">>, matcher.input)

\* `$a+` matched three tokens and captured each of them (the repetition test).
C15_Witness ==
    /\ Len(call) = 1 /\ call[1].ret = "true"
    /\ matcher.pattern = SeqNode(<<RepNode("+", VarNode(<<"a">>))>>)
    /\ Len(matcher.input) = 3
    /\ matcher.captures = EveryTokenUnder(<<"a">>, matcher.input)

\* The error members after call k (as CapturesAfter).
ErrorMessageAfter(k) ==
    IF k < Len(call) THEN call[k + 1].entry.error_message ELSE matcher.error_message
ErrorPositionAfter(k) ==
    IF k < Len(call) THEN call[k + 1].entry.error_position ELSE matcher.error_position

\* C17: `$a + $b` matches three tokens t0, t1, t2 iff t1 is `+`, and then the
\* capture list is exactly [(a, t0), (b, t2)].
C17_BinaryPattern ==
    (matcher.pattern = BinaryPattern /\ Len(matcher.input) = 3 /\ call # <<>>) =>
        /\ Returned(call[1])
        /\ call[1].ret = "true" <=> matcher.input[2] = <<"+">>
        /\ call[1].ret = "true" =>
              /\ call[1].input_pos = 3
              /\ CapturesAfter(1) = << [name |-> <<"a">>, token |-> matcher.input[1]],
                                       [name |-> <<"b">>, token |-> matcher.input[3]] >>

\* [10, +, 20] matched with captures [(a, 10), (b, 20)].
C17_Witness ==
    /\ matcher.pattern = BinaryPattern
    /\ matcher.input = << <<"1", "0">>, <<"+">>, <<"2", "0">> >>
    /\ Len(call) = 1 /\ call[1].ret = "true"
    /\ matcher.captures = << [name |-> <<"a">>, token |-> <<"1", "0">>],
                             [name |-> <<"b">>, token |-> <<"2", "0">>] >>

\* The pattern is a Sequence of Literal, Operator and Variable nodes.
IsFlatSequence(p) ==
    /\ p.type = "SEQUENCE"
    /\ \A k \in DOMAIN p.children : p.children[k].type \in {"LITERAL", "OPERATOR", "VARIABLE"}

\* Child k is the first Literal or Operator of the flat sequence whose text
\* differs from the token it meets.
FirstMismatch(p, input, k) ==
    /\ k \in DOMAIN p.children /\ k <= Len(input)
    /\ p.children[k].type \in {"LITERAL", "OPERATOR"}
    /\ p.children[k].content # input[k]
    /\ \A j \in 1..(k - 1) :
          p.children[j].type \in {"LITERAL", "OPERATOR"} => p.children[j].content = input[j]

\* C18: when a Literal or Operator with text T meets a token G # T (and there
\* is no alternative), match() fails and the error names T and G and carries
\* the index of the offending token.
C18_MismatchError ==
    \A k \in DOMAIN matcher.pattern.children :
        (/\ call # <<>>
         /\ IsFlatSequence(matcher.pattern)
         /\ FirstMismatch(matcher.pattern, matcher.input, k)) =>
            /\ call[1].ret = "false"
            /\ ErrorMessageAfter(1).expected = matcher.pattern.children[k].content
            /\ ErrorMessageAfter(1).got = matcher.input[k]
            /\ ErrorPositionAfter(1) = k - 1

\* C19: the pattern text `vec ! [ $e ; $n ]` parsed and matched against
\* [vec, !, [, 7, ;, 3, ]] succeeds with captures exactly [(e, 7), (n, 3)].
C19_VecRepeat ==
    (/\ parser.pattern = <<"v", "e", "c", " ", "!", " ", "[", " ", "$", "e", " ", ";", " ",
                           "$", "n", " ", "]">>
     /\ tokens = << <<"v", "e", "c">>, <<"!">>, <<"[">>, <<"7">>, <<";">>, <<"3">>, <<"]">> >>
     /\ ParseCalled) =>
        /\ parser.state = "returned"
        /\ (Constructed /\ call # <<>>) =>
              /\ call[1].ret = "true"
              /\ CapturesAfter(1) = << [name |-> <<"e">>, token |-> <<"7">>],
                                       [name |-> <<"n">>, token |-> <<"3">>] >>

\* C16: a `?` Repetition succeeds iff its child matched at most once and fails
\* with 'expected zero or one match' when a second iteration also succeeds;
\* the pattern `$a?` on no tokens succeeds with zero captures.
C16_ZeroOrOne ==
    /\ (/\ call # <<>> /\ Returned(call[1])
        /\ IsRepetitionPattern(matcher.pattern)
        /\ RepetitionOf(matcher.pattern).content = <<"?">>) =>
           LET node == RepetitionOf(matcher.pattern)
               greedy == MatchedIterations(node.children[1], matcher.input, 0, 0)
           IN  /\ call[1].ret = "true" <=> greedy.n <= 1
               /\ call[1].ret = "false" =>
                     (IF Len(call) > 1 THEN call[2].entry.error_message
                                       ELSE matcher.error_message).text
                         = "Expected zero or one match for '?' repetition, got multiple"
               /\ (node.children[1].type = "VARIABLE" /\ matcher.input = <<>>) =>
                     call[1].ret = "true" /\ CapturesAfter(1) = <<>>
    /\ (ParseCalled /\ parser.pattern = <<"$", "a", "?">> /\ tokens = <<>>) =>
           /\ parser.state = "returned"
           /\ parser.result.children =
                 <<WithChildren(PatternNode("REPETITION", <<"?">>, 2),
                                <<PatternNode("VARIABLE", <<"a">>, 0)>>)>>
           /\ (Constructed /\ call # <<>>) =>
                 call[1].ret = "true" /\ CapturesAfter(1) = <<>>

(***************************************************************************)
(* Properties of the parser (checked under SpecParser).                    *)
(***************************************************************************)
\* C6: parse() returns on every pattern text.
C6_ParserTerminates == parser.state # "no return"

(***************************************************************************)
(* Properties of the expanders (checked under SpecExpander).               *)
(***************************************************************************)
\* What PatternMatcher::match() does for a rule's pattern on the input.
RuleMatch(rule, input) == match(NewMatcher(parse_pattern(rule).node, input))

\* The rule's pattern text parses (parse() returns) and match() returns true.
RuleMatches(rule, input) ==
    /\ ~parse_pattern(rule).ps.hung
    /\ ~RuleMatch(rule, input).exhausted
    /\ RuleMatch(rule, input).ok

RuleParseFails(rule) ==
    /\ ~parse_pattern(rule).ps.hung
    /\ parser_has_error(parse_pattern(rule).ps)

Matching == {I \in 0..(Len(rules) - 1) : RuleMatches(rules[I + 1], tokens)}

\* The lowest-indexed rule whose pattern matches the tokens.
FirstMatching == CHOOSE I \in Matching : \A J \in Matching : I <= J

\* The call was compiled, made, and came back (with a value or an exception).
ReturnedOutcome == outcome.kind \notin {"none", "no return", "ill-formed"}

\* C3: expand returns the value of the generator of the lowest-indexed rule
\* whose pattern matches, called with the captures of that match; no generator
\* of a rule that does not match is invoked.
C3_FirstMatchDispatch ==
    (outcome.op \in {"expand", "MacroExpander::expand"} /\ ReturnedOutcome) =>
        /\ outcome.kind = "value" =>
              /\ Matching # {}
              /\ outcome.value.rule = FirstMatching
              /\ outcome.op = "expand" =>
                    outcome.value.captures = RuleMatch(rules[FirstMatching + 1], tokens).captures
        /\ (outcome.kind = "throw" /\ outcome.rule >= 0) =>
              /\ Matching # {}
              /\ outcome.rule = FirstMatching

\* The failure entries an error value carries.
PerRuleErrors(o) == IF "per_rule_errors" \in DOMAIN o THEN o.per_rule_errors ELSE <<>>

\* C7: when no rule matches, expand fails with 'no matching rule' and the error
\* carries one failure entry per rule, in declaration order.
C7_NoMatchDiagnostics ==
    (outcome.op = "expand" /\ ReturnedOutcome /\ Matching = {}) =>
        /\ outcome.kind \in {"throw", "error"}
        /\ Len(PerRuleErrors(outcome)) = Len(rules)

\* C8: no parse error, mismatch or 'no matching rule' outcome reaches the
\* caller of expand or try_expand as a thrown exception (only a generator's
\* own exception may propagate).
C8_ErrorsAreValues ==
    (outcome.op \in {"expand", "try_expand"} /\ outcome.kind = "throw") =>
        outcome.rule >= 0

Failing == {I \in 0..(Len(rules) - 1) : RuleParseFails(rules[I + 1])}

FirstFailing == CHOOSE I \in Failing : \A J \in Failing : I <= J

\* C9: if a rule whose pattern text fails to parse is reached (no rule before
\* it matches), expand and try_expand surface its parse error; the generator
\* of such a rule is never invoked.
C9_PoisonedRule ==
    (/\ outcome.op \in {"expand", "try_expand"}
     /\ ReturnedOutcome
     /\ Failing # {}
     /\ \A J \in Matching : J >= FirstFailing) =>
        /\ outcome.kind \in {"throw", "error"}
        /\ outcome.what = parse_pattern(rules[FirstFailing + 1]).ps.error_message

\* C11: over any sequence of expand / try_expand calls, each rule's pattern
\* text is parsed at most once.
C11_ParseOnce == \A i \in DOMAIN parse_calls : parse_calls[i] <= 1

IsPrefix(p, t) == Len(p) <= Len(t) /\ SubSeq(t, 1, Len(p)) = p

\* Atoms at the start of a pattern text and the node each stands for.
QuantifiedAtoms ==
    { [text |-> <<"$", "a">>, node |-> PatternNode("VARIABLE", <<"a">>, 0)],
      [text |-> <<"a">>, node |-> PatternNode("LITERAL", <<"a">>, 0)],
      [text |-> <<"1">>, node |-> PatternNode("LITERAL", <<"1">>, 0)],
      [text |-> <<"\\", "+">>, node |-> PatternNode("LITERAL", <<"+">>, 0)],
      [text |-> <<"$", "v", "a", "r", "1">>,
       node |-> PatternNode("VARIABLE", <<"v", "a", "r", "1">>, 0)] }

\* The text is the atom, the quantifier q right after it, and then nothing or
\* whitespace and more.
QuantifiedText(t, atom, q) ==
    /\ IsPrefix(atom.text \o <<q>>, t)
    /\ Len(t) > Len(atom.text) + 1 => t[Len(atom.text) + 2] = " "

\* C12: a `*`, `+` or `?` right after an atom is a quantifier: parse() puts a
\* Repetition node with that operator and the atom as its single child in the
\* atom's place.
C12_Quantifier ==
    \A atom \in QuantifiedAtoms, q \in {"*", "+", "?"} :
        (ParseCalled /\ QuantifiedText(parser.pattern, atom, q)) =>
            /\ parser.state = "returned"
            /\ parser.result.children # <<>>
            /\ parser.result.children[1] =
                  WithChildren(PatternNode("REPETITION", <<q>>, Len(atom.text)), <<atom.node>>)

RECURSIVE NodesOf(_)
\* All the nodes of an AST.
NodesOf(node) ==
    {node} \cup UNION {NodesOf(node.children[k]) : k \in DOMAIN node.children}

Whitespace == {" ", "\t", "\n", VT, "\f", "\r"}

\* Position i (0-based) of text t holds a `+ - * / =` that is preceded by
\* whitespace or has no atom before it in its sequence: it is the first
\* character of the text or of a group or optional that opens right before it.
OperatorPosition(t, i) ==
    /\ t[i + 1] \in {"+", "-", "*", "/", "="}
    /\ \/ i = 0
       \/ t[i] \in Whitespace
       \/ /\ t[i] \in {"(", "["}
          /\ i >= 2 => t[i - 1] # "\\"

\* C13: a `+ - * / =` preceded by whitespace, or with no preceding atom in
\* its sequence, that parse() has read is a one-character Operator node of
\* the AST at that position, and no Repetition node stands there.
C13_Operator ==
    \A i \in 0..(Len(parser.pattern) - 1) :
        (parser.state = "returned" /\ parser.pos > i /\ OperatorPosition(parser.pattern, i)) =>
            /\ PatternNode("OPERATOR", <<parser.pattern[i + 1]>>, i) \in NodesOf(parser.result)
            /\ \A n \in NodesOf(parser.result) :
                  n.source_position = i => n.type \notin {"REPETITION", "LITERAL"}

\* `$var1 + $var2` is parsed as Variable var1, Operator `+`, Variable var2.
C13_Witness ==
    /\ parser.state = "returned"
    /\ parser.pattern = <<"$", "v", "a", "r", "1", " ", "+", " ", "$", "v", "a", "r", "2">>
    /\ parser.error_message = ""
    /\ parser.result.children =
          << PatternNode("VARIABLE", <<"v", "a", "r", "1">>, 0),
             PatternNode("OPERATOR", <<"+">>, 6),
             PatternNode("VARIABLE", <<"v", "a", "r", "2">>, 8) >>

RECURSIVE BackslashesBefore(_, _)
\* The number of consecutive backslashes right before position i (0-based).
BackslashesBefore(t, i) ==
    IF i = 0 \/ t[i] # "\\" THEN 0 ELSE 1 + BackslashesBefore(t, i - 1)

\* Position i holds a backslash that escapes the character after it (it is
\* not itself escaped by a backslash before it).
EscapeAt(t, i) ==
    /\ t[i + 1] = "\\"
    /\ i + 1 < Len(t)
    /\ BackslashesBefore(t, i) % 2 = 0

\* C14: a backslash followed by a character c that parse() has read is a
\* Literal node with text c at the backslash's position; the escaped
\* character is neither an Operator node nor a quantifier.
C14_Escape ==
    \A i \in 0..(Len(parser.pattern) - 1) :
        (parser.state = "returned" /\ parser.pos > i /\ EscapeAt(parser.pattern, i)) =>
            /\ PatternNode("LITERAL", <<parser.pattern[i + 2]>>, i) \in NodesOf(parser.result)
            /\ \A n \in NodesOf(parser.result) :
                  n.source_position = i + 1 => n.type \notin {"OPERATOR", "REPETITION"}

\* `$var1 \+ $var2` is parsed as Variable var1, Literal `+`, Variable var2.
C14_Witness ==
    /\ parser.state = "returned"
    /\ parser.pattern = <<"$", "v", "a", "r", "1", " ", "\\", "+", " ", "$", "v", "a", "r", "2">>
    /\ parser.error_message = ""
    /\ parser.result.children =
          << PatternNode("VARIABLE", <<"v", "a", "r", "1">>, 0),
             PatternNode("LITERAL", <<"+">>, 6),
             PatternNode("VARIABLE", <<"v", "a", "r", "2">>, 9) >>

\* The rule whose generator the call invoked (-1: none).
InvokedRule(o) ==
    IF o.kind = "value" THEN o.value.rule ELSE IF o.kind = "throw" THEN o.rule ELSE -1

\* C20: dispatching [vec, !, [, 1, 2, 3, ]] over [`vec ! [ ]`, `vec ! [ $e+ ]`,
\* `vec ! [ $e ; $n ]`] invokes the generator of the second rule only, with
\* captures exactly [(e, 1), (e, 2), (e, 3)].
C20_VecList ==
    (/\ Len(rules) = 3 /\ \A i \in 1..3 : rules[i].pattern = ScenarioRuleTexts[i]
     /\ tokens = << <<"v", "e", "c">>, <<"!">>, <<"[">>, <<"1">>, <<"2">>, <<"3">>, <<"]">> >>
     /\ outcome.op \in {"expand", "MacroExpander::expand"}
     /\ ReturnedOutcome) =>
        /\ InvokedRule(outcome) = 1
        /\ (outcome.op = "expand" /\ outcome.kind = "value") =>
              outcome.value.captures = EveryTokenUnder(<<"e">>, << <<"1">>, <<"2">>, <<"3">> >>)

\* C10: try_expand raises no failure; it returns an absent result when no rule
\* matches or the selected rule's generator reports an error, and the value
\* expand returns when some rule matches and its generator succeeds.
C10_TryExpand ==
    (outcome.op = "try_expand" /\ outcome.kind # "no return") =>
        /\ outcome.kind \in {"nullopt", "value"}
        /\ Matching = {} => outcome.kind = "nullopt"
        /\ (Matching # {} /\ rules[FirstMatching + 1].generator = "throws")
              => outcome.kind = "nullopt"
        /\ (Matching # {} /\ rules[FirstMatching + 1].generator = "returns")
              => /\ outcome.kind = "value"
                 /\ expand(rules, tokens).kind = "value"
                 /\ outcome.value = expand(rules, tokens).value

(***************************************************************************)
(* Properties of the parser's error reports (checked under SpecParser).    *)
(***************************************************************************)
\* Position i (0-based) of text t holds a character escaped by a backslash.
Escaped(t, i) == i >= 1 /\ EscapeAt(t, i - 1)

\* Position i holds an unescaped `$` that is not followed by the first
\* character of an identifier (a letter or `_`): it ends the text or stands
\* before whitespace, a digit or any other character.
DollarWithoutName(t, i) ==
    /\ t[i + 1] = "$"
    /\ ~Escaped(t, i)
    /\ i + 1 < Len(t) => t[i + 2] \notin (Letters \cup {"_"})

\* C21: a `$` that parse() has read and that is not followed by the first
\* character of an identifier makes parse() report an error; at the end of
\* the text, before whitespace and before a digit alike.
C21_EmptyVariableName ==
    \A i \in 0..(Len(parser.pattern) - 1) :
        (parser.state = "returned" /\ parser.pos > i /\ DollarWithoutName(parser.pattern, i)) =>
            parser.error_message # ""

RECURSIVE OpenAfter(_, _)
\* The openers still open after the first k characters of t: an unescaped
\* `(` or `[` opens, an unescaped `)` or `]` closes the innermost opener when
\* that one is of its kind.
OpenAfter(t, k) ==
    IF k = 0 THEN <<>>
    ELSE LET st == OpenAfter(t, k - 1)
             c == t[k]
             top == IF st = <<>> THEN NUL ELSE st[Len(st)]
         IN  IF Escaped(t, k - 1) THEN st
             ELSE IF c \in {"(", "["} THEN Append(st, c)
             ELSE IF (c = ")" /\ top = "(") \/ (c = "]" /\ top = "[")
                  THEN SubSeq(st, 1, Len(st) - 1)
             ELSE st

\* Text t has a `(` or `[` without its closer, or ends in an unescaped backslash.
Unterminated(t) ==
    \/ OpenAfter(t, Len(t)) # <<>>
    \/ Len(t) >= 1 /\ t[Len(t)] = "\\" /\ ~Escaped(t, Len(t) - 1)

\* C22: after parse() has returned on a text with an unclosed `(`, an
\* unclosed `[` or a trailing unescaped backslash, has_error() is true,
\* whatever parse() read after the place where the error was set.
C22_Unterminated ==
    (parser.state = "returned" /\ Unterminated(parser.pattern)) => parser_has_error(parser)

\* In `[(]` the group is found unclosed at the `]`, parse() goes on to read
\* the `]` as the end of the optional, and the error is still there.
C22_Witness ==
    /\ parser.state = "returned"
    /\ parser.pattern = <<"[", "(", "]">>
    /\ parser.pos = 3
    /\ parser.error_message = "Unclosed group: missing ')'"
    /\ parser.error_position = 2

\* Position i holds a `*`, `+` or `?` with no atom before it in its sequence:
\* it is the first character of the text or of a group or optional.
QuantifierWithoutAtom(t, i) ==
    /\ t[i + 1] \in {"*", "+", "?"}
    /\ \/ i = 0
       \/ t[i] \in {"(", "["} /\ ~Escaped(t, i - 1)

\* C23: a `*`, `+` or `?` with no preceding atom in its sequence that parse()
\* has reached makes parse() return with the error "Repetition operator
\* without preceding element".
C23_QuantifierWithoutAtom ==
    \A i \in 0..(Len(parser.pattern) - 1) :
        (ParseCalled /\ parser.pos >= i /\ QuantifierWithoutAtom(parser.pattern, i)) =>
            /\ parser.state = "returned"
            /\ parser.error_message = "Repetition operator without preceding element"

\* Position i holds an unescaped `)` or `]` that closes no opener of text t.
UnmatchedCloser(t, i) ==
    /\ t[i + 1] \in {")", "]"}
    /\ ~Escaped(t, i)
    /\ OpenAfter(t, i) = <<>>

\* C24: when parse() returns with a character left unread, that character is
\* not whitespace and the error "Unexpected characters at end of pattern" is
\* reported at its position; a `)` or `]` that closes nothing is such a
\* character or lies after one; every reported position is within
\* [0, length of the text].
C24_TrailingGarbage ==
    parser.state = "returned" =>
        /\ parser.pos < Len(parser.pattern) =>
              /\ parser.pattern[parser.pos + 1] \notin Whitespace
              /\ parser.error_message = "Unexpected characters at end of pattern"
              /\ parser.error_position = parser.pos
        /\ \A i \in 0..(Len(parser.pattern) - 1) :
              UnmatchedCloser(parser.pattern, i) =>
                  /\ parser.error_message = "Unexpected characters at end of pattern"
                  /\ parser.error_position <= i
        /\ parser_has_error(parser) => parser.error_position \in 0..Len(parser.pattern)

\* `a )` leaves the `)` unread: the error is reported at position 2.
C24_Witness ==
    /\ parser.state = "returned"
    /\ parser.pattern = <<"a", " ", ")">>
    /\ parser.pos = 2
    /\ parser.error_message = "Unexpected characters at end of pattern"
    /\ parser.error_position = 2

\* C25: in the AST of a parse that returned without error, every Repetition
\* node has exactly one child, every Optional node has exactly one child, a
\* Sequence, every Variable node has a non-empty name of letters, digits and
\* `_`, and every Literal and Operator node has a non-empty text.
C25_WellFormedAst ==
    (parser.state = "returned" /\ ~parser_has_error(parser)) =>
        \A n \in NodesOf(parser.result) :
            /\ n.type = "REPETITION" => Len(n.children) = 1
            /\ n.type = "OPTIONAL" =>
                  Len(n.children) = 1 /\ n.children[1].type = "SEQUENCE"
            /\ n.type = "VARIABLE" =>
                  /\ n.content # <<>>
                  /\ \A k \in DOMAIN n.content :
                        n.content[k] \in Letters \cup Digits \cup {"_"}
            /\ n.type \in {"LITERAL", "OPERATOR"} => n.content # <<>>

\* A text such as `vec ! [ $e+ ]` is parsed without error into an AST with a
\* Literal and an Optional that holds a Repetition over a Variable.
C25_Witness ==
    /\ parser.state = "returned"
    /\ ~parser_has_error(parser)
    /\ \E o \in NodesOf(parser.result) :
          /\ o.type = "OPTIONAL"
          /\ \E r \in NodesOf(o) :
                /\ r.type = "REPETITION"
                /\ r.children[1].type = "VARIABLE"
    /\ \E l \in NodesOf(parser.result) : l.type = "LITERAL"

(***************************************************************************)
(* Further properties of the matcher (checked under SpecMatcher).          *)
(***************************************************************************)
\* The pattern is an Optional node, or a Sequence that ends with one.
EndsWithOptional(p) ==
    \/ p.type = "OPTIONAL"
    \/ p.type = "SEQUENCE" /\ p.children # <<>> /\ p.children[Len(p.children)].type = "OPTIONAL"

\* The Optional node the pattern ends with, and the nodes matched before it.
LastOptional(p) == IF p.type = "OPTIONAL" THEN p ELSE p.children[Len(p.children)]
BeforeOptional(p) ==
    IF p.type = "OPTIONAL" THEN <<>> ELSE SubSeq(p.children, 1, Len(p.children) - 1)

\* C26: an Optional node that is entered never fails: when the nodes before
\* it match, match() returns true; when the Optional's children fail to match
\* the input index is the one the Optional was entered with, and when they
\* match it is the index they consumed up to.
C26_Optional ==
    (call # <<>> /\ Returned(call[1]) /\ EndsWithOptional(matcher.pattern)) =>
        LET before == MatchedAll(BeforeOptional(matcher.pattern), matcher.input, 0)
            inner == MatchedAll(LastOptional(matcher.pattern).children, matcher.input, before.pos)
        IN  before.ok =>
                /\ call[1].ret = "true"
                /\ call[1].input_pos = IF inner.ok THEN inner.pos ELSE before.pos

\* `$a [ x + ]` on [+, x, x]: the Optional is entered at index 1, its
\* sequence consumes the first x and fails on the second, and match() returns
\* true with the index back at 1.
C26_Witness ==
    /\ matcher.pattern = SeqNode(<<VarNode(<<"a">>),
                                   OptNode(<<SeqNode(<<LitNode(<<"x">>), OpNode(<<"+">>)>>)>>)>>)
    /\ matcher.input = << <<"+">>, <<"x">>, <<"x">> >>
    /\ call # <<>>
    /\ call[1].ret = "true"
    /\ call[1].input_pos = 1

RECURSIVE MustConsume(_)
\* Node n cannot match without consuming a token: a Literal, an Operator or a
\* Variable, a Sequence that holds such a node, or a `+` Repetition of one.
MustConsume(n) ==
    \/ n.type \in {"LITERAL", "OPERATOR", "VARIABLE"}
    \/ n.type = "SEQUENCE" /\ \E k \in DOMAIN n.children : MustConsume(n.children[k])
    \/ n.type = "REPETITION" /\ n.content = <<"+">> /\ n.children # <<>>
                             /\ MustConsume(n.children[1])

\* Pattern p is a Sequence in which a `*` or `+` Repetition of a Variable is
\* followed by a node that must consume a token.
RepeatedVariableThenConsumer(p) ==
    /\ p.type = "SEQUENCE"
    /\ \E k \in 1..(Len(p.children) - 1) :
          /\ p.children[k].type = "REPETITION"
          /\ p.children[k].content \in {<<"*">>, <<"+">>}
          /\ p.children[k].children # <<>>
          /\ p.children[k].children[1].type = "VARIABLE"
          /\ MustConsume(p.children[k + 1])

\* C27: a Sequence in which a repeated Variable is followed by a node that
\* must consume a token fails on every token sequence: match() returns false.
C27_GreedyRepetition ==
    (call # <<>> /\ RepeatedVariableThenConsumer(matcher.pattern)) => call[1].ret = "false"

\* `$a* x` on [+, x]: the repetition captures both tokens, the x included,
\* and the Literal x fails at the end of the input.
C27_Witness ==
    /\ matcher.pattern = SeqNode(<<RepNode("*", VarNode(<<"a">>)), LitNode(<<"x">>)>>)
    /\ matcher.input = << <<"+">>, <<"x">> >>
    /\ call # <<>>
    /\ call[1].ret = "false"
    /\ CapturesAfter(1) = EveryTokenUnder(<<"a">>, matcher.input)

RECURSIVE SwapLiteralOperator(_)
\* The AST with every Literal node replaced by an Operator node with the same
\* text and every Operator node by a Literal node with the same text.
SwapLiteralOperator(n) ==
    [n EXCEPT
        !.type = IF @ = "LITERAL" THEN "OPERATOR" ELSE IF @ = "OPERATOR" THEN "LITERAL" ELSE @,
        !.children = [k \in DOMAIN @ |-> SwapLiteralOperator(@[k])]]

\* C28: match() on the pattern with its Literal and Operator nodes exchanged
\* returns when the first match() on the pattern itself does, with the same
\* value, the same input index and the same captures; the error is reported
\* at the same position for the same expected and found texts, and only its
\* wording may differ.
C28_LiteralOperator ==
    (/\ call # <<>>
     /\ \E n \in NodesOf(matcher.pattern) : n.type \in {"LITERAL", "OPERATOR"}) =>
        LET r == match(NewMatcher(SwapLiteralOperator(matcher.pattern), matcher.input))
        IN  /\ r.exhausted <=> ~Returned(call[1])
            /\ Returned(call[1]) =>
                  /\ r.ok <=> call[1].ret = "true"
                  /\ r.input_pos = call[1].input_pos
                  /\ r.captures = CapturesAfter(1)
                  /\ r.error_position = ErrorPositionAfter(1)
                  /\ r.error_message.expected = ErrorMessageAfter(1).expected
                  /\ r.error_message.got = ErrorMessageAfter(1).got
                  /\ r.error_message = NoMessage <=> ErrorMessageAfter(1) = NoMessage

\* `+ x` (Operator, Literal) matches [+, x] and consumes both tokens.
C28_Witness ==
    /\ matcher.pattern = SeqNode(<<OpNode(<<"+">>), LitNode(<<"x">>)>>)
    /\ matcher.input = << <<"+">>, <<"x">> >>
    /\ call # <<>>
    /\ call[1].ret = "true"
    /\ call[1].input_pos = 2

\* C29: after the first match() on a freshly constructed matcher has
\* returned, has_error() is true exactly when match() returned false.
C29_ErrorFlag ==
    (Len(call) = 1 /\ Returned(call[1])) =>
        (call[1].ret = "false" <=> has_error(matcher))

\* `[ x ] $a` on [+]: the Optional's Literal fails on `+` and sets an error,
\* the Optional clears it, the Variable captures `+`, and match() returns true
\* with has_error() false.
C29_Witness ==
    /\ matcher.pattern = SeqNode(<<OptNode(<<SeqNode(<<LitNode(<<"x">>)>>)>>), VarNode(<<"a">>)>>)
    /\ matcher.input = << <<"+">> >>
    /\ Len(call) = 1
    /\ call[1].ret = "true"
    /\ ~has_error(matcher)

\* C30: a second match() on the same matcher returns what the first one
\* returned and leaves get_captures() equal to the list after the first call.
C30_Rematch ==
    (Len(call) = 2 /\ Returned(call[1]) /\ Returned(call[2])) =>
        /\ call[2].ret = call[1].ret
        /\ call[2].input_pos = call[1].input_pos
        /\ get_captures(matcher) = CapturesAfter(1)

====
